---- MODULE Spec2Model ----
(***************************************************************************)
(* Model of the orchestration workflow of src/Socialmedia.py: the stage    *)
(* graph assembled by build_graph (editor, two writers, supervisor with    *)
(* the conditional edge should_rewrite, two critiques) and its invocation  *)
(* by main.                                                                *)
(*                                                                         *)
(* The graph is run in supersteps: the nodes triggered together (the two   *)
(* writers after the editor, the two critiques after the supervisor, the   *)
(* two writers after the critiques) form one superstep and run             *)
(* concurrently; the next superstep starts when all of them have returned. *)
(* Every node except the supervisor makes one blocking llm.invoke call, so *)
(* a node is modelled by two steps: the call (prompt built, request sent)  *)
(* and the node's return (response stored, or the exception raised).       *)
(* A Post is mutated in place (post.drafts.append, post.feedback = ...),   *)
(* so a node's effect on its Post is visible as soon as the node returns.  *)
(***************************************************************************)
EXTENDS Integers, Sequences, FiniteSets, TLC

\* ------------------------------------------------------------------------
\* Bounds and value sets
\* ------------------------------------------------------------------------

\* Largest n_drafts explored (the number_input of main allows 1..5).
MaxDrafts == 3

\* Cap on the number of calls of one node, above anything a run needs.
MaxCalls == MaxDrafts + 2

\* response.content of a successful service call: any string, the empty one
\* included.
Texts == {"", "a"}

\* The exception an llm.invoke call raises when the service fails.
GenerationFailure == "GenerationFailure"

Responses == Texts \cup {GenerationFailure}

\* Post.feedback is Optional[str]: None is the absent value.
None == "None"

\* AppState has no "edit_text" key until the editor's write is applied.
Unset == "Unset"

END == "__end__"

Nodes == {"editor", "tweet_writer", "tweet_critique",
          "linkedin_writer", "linkedin_critique", "supervisor"}

Writers == {"tweet_writer", "linkedin_writer"}

Critiques == {"tweet_critique", "linkedin_critique"}

VARIABLES
    user_text,         \* AppState["user_text"]
    target_audience,   \* AppState["target_audience"]
    edit_text,         \* AppState["edit_text"], Unset before the editor
    tweet,             \* AppState["tweet"], a Post
    linkedin_post,     \* AppState["linkedin_post"], a Post
    n_drafts,          \* AppState["n_drafts"]
    pc,                \* per node: idle, ready, calling, done, failed
    route,             \* what should_rewrite returned in this superstep
    error,             \* an exception has been raised inside app.invoke
    outcome,           \* running, success (invoke returned), failure (except)
    generated_state,   \* st.session_state['generated_state']: <<>> or <<state>>
    prompt,            \* per node: the HumanMessage of its latest call
    calls,             \* per node: number of llm.invoke calls made (history)
    returns,           \* per node: number of calls that returned text (history)
    errors,            \* the nodes whose call raised (history)
    critiqued,         \* per Post: position of the draft feedback was written for
    firstWriter,       \* the writer that made the first writer call (history)
    oracle,            \* per node: <<>>, or the texts the service is fixed to return
    gates              \* number of should_rewrite evaluations (history)

vars == <<user_text, target_audience, edit_text, tweet, linkedin_post, n_drafts,
          pc, route, error, outcome, generated_state, prompt, calls,
          returns, errors, critiqued, firstWriter, gates, oracle>>

appVars == <<user_text, target_audience, edit_text, tweet, linkedin_post, n_drafts>>

histVars == <<calls, returns, errors, critiqued, firstWriter, gates>>

\* ------------------------------------------------------------------------
\* Data model
\* ------------------------------------------------------------------------

Post(drafts, feedback) == [drafts |-> drafts, feedback |-> feedback]

AppState ==
    [user_text |-> user_text, target_audience |-> target_audience,
     edit_text |-> edit_text, tweet |-> tweet, linkedin_post |-> linkedin_post,
     n_drafts |-> n_drafts]

\* drafts[-1]
LastDraft(post) == post.drafts[Len(post.drafts)]

\* Python truthiness of Optional[str]: None and "" are both falsy.
Truthy(s) == s # None /\ s # ""

IsPrefix(s, t) == Len(s) <= Len(t) /\ SubSeq(t, 1, Len(s)) = s

\* ------------------------------------------------------------------------
\* Initial state: main calls app.invoke with two empty Posts
\* ------------------------------------------------------------------------

Init ==
    /\ user_text \in {"X"}
    /\ target_audience \in {"engineers"}
    /\ edit_text = Unset
    /\ tweet = Post(<<>>, None)
    /\ linkedin_post = Post(<<>>, None)
    /\ n_drafts \in 1..MaxDrafts
    /\ pc = [n \in Nodes |-> IF n = "editor" THEN "ready" ELSE "idle"]
    /\ route = {}
    /\ error = FALSE
    /\ outcome = "running"
    /\ generated_state = <<>>
    /\ prompt = [n \in Nodes |-> <<>>]
    /\ calls = [n \in Nodes |-> 0]
    /\ returns = [n \in Nodes |-> 0]
    /\ errors = {}
    /\ critiqued = [p \in {"tweet", "linkedin_post"} |-> 0]
    /\ firstWriter = "none"
    /\ gates = 0
    /\ oracle = [n \in Nodes |-> <<>>]

\* ------------------------------------------------------------------------
\* Calls to the text-generation service
\* ------------------------------------------------------------------------

\* A node may start: it was triggered for this superstep, no exception has
\* been raised yet, and the call cap is not reached.
CanCall(n) == pc[n] = "ready" /\ ~error /\ calls[n] < MaxCalls

\* llm.invoke is entered with HumanMessage p.
Called(n, p) ==
    /\ pc' = [pc EXCEPT ![n] = "calling"]
    /\ prompt' = [prompt EXCEPT ![n] = <<p>>]
    /\ calls' = [calls EXCEPT ![n] = @ + 1]
    /\ UNCHANGED <<error, errors, returns>>

\* The node function returns normally.
Returned(n) ==
    /\ pc' = [pc EXCEPT ![n] = "done"]
    /\ returns' = [returns EXCEPT ![n] = @ + 1]
    /\ UNCHANGED <<error, errors, prompt, calls>>

\* The node function raises.
Raised(n) ==
    /\ pc' = [pc EXCEPT ![n] = "failed"]
    /\ error' = TRUE
    /\ errors' = errors \cup {n}
    /\ UNCHANGED <<returns, prompt, calls>>

\* What the k-th call of node n gets from a fixed service: its first text on
\* odd calls, its second on even ones.
Resp(n, k) == oracle[n][2 - (k % 2)]

\* What llm.invoke can come back with for the call node n has in flight: any
\* text or a failure, or the text a fixed service holds for that call.
ServiceResponses(n) ==
    IF oracle[n] = <<>> THEN Responses ELSE {Resp(n, calls[n])}

\* feedback_prompt of the writers: "" when the feedback is falsy, else the
\* block quoting drafts[-1] and the feedback.
FeedbackPrompt(post) ==
    IF ~Truthy(post.feedback) THEN <<>> ELSE <<LastDraft(post), post.feedback>>

WriterPrompt(post) ==
    [text |-> edit_text, feedback_prompt |-> FeedbackPrompt(post),
     audience |-> target_audience]

\* Variant: the critique quotes drafts[0] instead of drafts[-1].
CritiquePrompt_first(post) ==
    [text |-> edit_text, draft |-> post.drafts[1],
     draft_no |-> 1, audience |-> target_audience]

\* The critique prompt quotes drafts[-1]; draft_no records which position
\* that is.
CritiquePrompt(post) ==
    [text |-> edit_text, draft |-> LastDraft(post),
     draft_no |-> Len(post.drafts), audience |-> target_audience]

\* ------------------------------------------------------------------------
\* editor
\* ------------------------------------------------------------------------

editor_call ==
    /\ CanCall("editor")
    /\ Called("editor", [text |-> user_text])
    /\ UNCHANGED <<appVars, oracle, route, outcome, generated_state,
                   critiqued, firstWriter, gates>>

editor_node ==
    /\ pc["editor"] = "calling"
    /\ \E response \in ServiceResponses("editor") :
         IF response = GenerationFailure
         THEN Raised("editor") /\ UNCHANGED edit_text
         ELSE Returned("editor") /\ edit_text' = response
    /\ UNCHANGED <<oracle, user_text, target_audience, tweet, linkedin_post, n_drafts,
                   route, outcome, generated_state, critiqued, firstWriter, gates>>

\* ------------------------------------------------------------------------
\* writers
\* ------------------------------------------------------------------------

tweet_writer_call ==
    /\ CanCall("tweet_writer")
    /\ IF Truthy(tweet.feedback) /\ Len(tweet.drafts) = 0
       THEN Raised("tweet_writer") /\ UNCHANGED firstWriter   \* IndexError
       ELSE /\ Called("tweet_writer", WriterPrompt(tweet))
            /\ firstWriter' = IF firstWriter = "none" THEN "tweet_writer"
                              ELSE firstWriter
    /\ UNCHANGED <<appVars, oracle, route, outcome, generated_state, critiqued, gates>>

\* Variant: the response is never appended.
tweet_writer_node_noappend ==
    /\ pc["tweet_writer"] = "calling"
    /\ \E response \in ServiceResponses("tweet_writer") :
         IF response = GenerationFailure
         THEN Raised("tweet_writer")
         ELSE Returned("tweet_writer")
    /\ UNCHANGED <<appVars, oracle, route, outcome, generated_state, critiqued,
                   firstWriter, gates>>

\* Variant: the response replaces the drafts instead of being appended.
tweet_writer_node_overwrite ==
    /\ pc["tweet_writer"] = "calling"
    /\ \E response \in ServiceResponses("tweet_writer") :
         IF response = GenerationFailure
         THEN Raised("tweet_writer") /\ UNCHANGED tweet
         ELSE /\ Returned("tweet_writer")
              /\ tweet' = [tweet EXCEPT !.drafts = <<response>>]
    /\ UNCHANGED <<oracle, user_text, target_audience, edit_text, linkedin_post, n_drafts,
                   route, outcome, generated_state, critiqued, firstWriter, gates>>

tweet_writer_node ==
    /\ pc["tweet_writer"] = "calling"
    /\ \E response \in ServiceResponses("tweet_writer") :
         IF response = GenerationFailure
         THEN Raised("tweet_writer") /\ UNCHANGED tweet
         ELSE /\ Returned("tweet_writer")
              /\ tweet' = [tweet EXCEPT !.drafts = Append(@, response)]
    /\ UNCHANGED <<oracle, user_text, target_audience, edit_text, linkedin_post, n_drafts,
                   route, outcome, generated_state, critiqued, firstWriter, gates>>

linkedin_writer_call ==
    /\ CanCall("linkedin_writer")
    /\ IF Truthy(linkedin_post.feedback) /\ Len(linkedin_post.drafts) = 0
       THEN Raised("linkedin_writer") /\ UNCHANGED firstWriter   \* IndexError
       ELSE /\ Called("linkedin_writer", WriterPrompt(linkedin_post))
            /\ firstWriter' = IF firstWriter = "none" THEN "linkedin_writer"
                              ELSE firstWriter
    /\ UNCHANGED <<appVars, oracle, route, outcome, generated_state, critiqued, gates>>

\* Variant: the writer clears the feedback it has just used.
linkedin_writer_node_clearfb ==
    /\ pc["linkedin_writer"] = "calling"
    /\ \E response \in ServiceResponses("linkedin_writer") :
         IF response = GenerationFailure
         THEN Raised("linkedin_writer") /\ UNCHANGED linkedin_post
         ELSE /\ Returned("linkedin_writer")
              /\ linkedin_post' = Post(Append(linkedin_post.drafts, response), None)
    /\ UNCHANGED <<oracle, user_text, target_audience, edit_text, tweet, n_drafts,
                   route, outcome, generated_state, critiqued, firstWriter, gates>>

\* Variant: the response is appended twice.
linkedin_writer_node_twice ==
    /\ pc["linkedin_writer"] = "calling"
    /\ \E response \in ServiceResponses("linkedin_writer") :
         IF response = GenerationFailure
         THEN Raised("linkedin_writer") /\ UNCHANGED linkedin_post
         ELSE /\ Returned("linkedin_writer")
              /\ linkedin_post' = [linkedin_post EXCEPT
                                     !.drafts = Append(Append(@, response), response)]
    /\ UNCHANGED <<oracle, user_text, target_audience, edit_text, tweet, n_drafts,
                   route, outcome, generated_state, critiqued, firstWriter, gates>>

\* Variant: the LinkedIn writer appends to the tweet's drafts (both writers
\* share one Post).
linkedin_writer_node_shared ==
    /\ pc["linkedin_writer"] = "calling"
    /\ \E response \in ServiceResponses("linkedin_writer") :
         IF response = GenerationFailure
         THEN Raised("linkedin_writer") /\ UNCHANGED tweet
         ELSE /\ Returned("linkedin_writer")
              /\ tweet' = [tweet EXCEPT !.drafts = Append(@, response)]
    /\ UNCHANGED <<oracle, user_text, target_audience, edit_text, linkedin_post,
                   n_drafts, route, outcome, generated_state, critiqued,
                   firstWriter, gates>>

linkedin_writer_node ==
    /\ pc["linkedin_writer"] = "calling"
    /\ \E response \in ServiceResponses("linkedin_writer") :
         IF response = GenerationFailure
         THEN Raised("linkedin_writer") /\ UNCHANGED linkedin_post
         ELSE /\ Returned("linkedin_writer")
              /\ linkedin_post' = [linkedin_post EXCEPT !.drafts = Append(@, response)]
    /\ UNCHANGED <<oracle, user_text, target_audience, edit_text, tweet, n_drafts,
                   route, outcome, generated_state, critiqued, firstWriter, gates>>

\* ------------------------------------------------------------------------
\* critiques
\* ------------------------------------------------------------------------

critique_tweet_call ==
    /\ CanCall("tweet_critique")
    /\ IF Len(tweet.drafts) = 0
       THEN Raised("tweet_critique")                           \* IndexError
       ELSE Called("tweet_critique", CritiquePrompt(tweet))
    /\ UNCHANGED <<appVars, oracle, route, outcome, generated_state,
                   critiqued, firstWriter, gates>>

\* Variant: the response is dropped, feedback is left as it was.
critique_tweet_node_nofeedback ==
    /\ pc["tweet_critique"] = "calling"
    /\ \E response \in ServiceResponses("tweet_critique") :
         IF response = GenerationFailure
         THEN Raised("tweet_critique")
         ELSE Returned("tweet_critique")
    /\ UNCHANGED <<appVars, oracle, route, outcome, generated_state, critiqued,
                   firstWriter, gates>>

critique_tweet_node ==
    /\ pc["tweet_critique"] = "calling"
    /\ \E response \in ServiceResponses("tweet_critique") :
         IF response = GenerationFailure
         THEN Raised("tweet_critique") /\ UNCHANGED <<tweet, critiqued>>
         ELSE /\ Returned("tweet_critique")
              /\ tweet' = [tweet EXCEPT !.feedback = response]
              /\ critiqued' = [critiqued EXCEPT
                                 !["tweet"] = prompt["tweet_critique"][1].draft_no]
    /\ UNCHANGED <<oracle, user_text, target_audience, edit_text, linkedin_post, n_drafts,
                   route, outcome, generated_state, firstWriter, gates>>

critique_linkedin_call ==
    /\ CanCall("linkedin_critique")
    /\ IF Len(linkedin_post.drafts) = 0
       THEN Raised("linkedin_critique")                        \* IndexError
       ELSE Called("linkedin_critique", CritiquePrompt(linkedin_post))
    /\ UNCHANGED <<appVars, oracle, route, outcome, generated_state,
                   critiqued, firstWriter, gates>>

critique_linkedin_node ==
    /\ pc["linkedin_critique"] = "calling"
    /\ \E response \in ServiceResponses("linkedin_critique") :
         IF response = GenerationFailure
         THEN Raised("linkedin_critique") /\ UNCHANGED <<linkedin_post, critiqued>>
         ELSE /\ Returned("linkedin_critique")
              /\ linkedin_post' = [linkedin_post EXCEPT !.feedback = response]
              /\ critiqued' = [critiqued EXCEPT
                                 !["linkedin_post"] = prompt["linkedin_critique"][1].draft_no]
    /\ UNCHANGED <<oracle, user_text, target_audience, edit_text, tweet, n_drafts,
                   route, outcome, generated_state, firstWriter, gates>>

\* ------------------------------------------------------------------------
\* supervisor and the conditional edge
\* ------------------------------------------------------------------------

\* Variant: strict comparison, one round too many.
should_rewrite_strict(state) ==
    IF /\ Len(state.tweet.drafts) > state.n_drafts
       /\ Len(state.linkedin_post.drafts) > state.n_drafts
    THEN {END}
    ELSE {"linkedin_critique", "tweet_critique"}

\* Variant: compares against n_drafts - 1, one round too few.
should_rewrite_early(state) ==
    IF /\ Len(state.tweet.drafts) >= state.n_drafts - 1
       /\ Len(state.linkedin_post.drafts) >= state.n_drafts - 1
    THEN {END}
    ELSE {"linkedin_critique", "tweet_critique"}

\* Variant: either platform reaching n_drafts ends the run.
should_rewrite_or(state) ==
    IF \/ Len(state.tweet.drafts) >= state.n_drafts
       \/ Len(state.linkedin_post.drafts) >= state.n_drafts
    THEN {END}
    ELSE {"linkedin_critique", "tweet_critique"}

should_rewrite(state) ==
    IF /\ Len(state.tweet.drafts) >= state.n_drafts
       /\ Len(state.linkedin_post.drafts) >= state.n_drafts
    THEN {END}
    ELSE {"linkedin_critique", "tweet_critique"}

\* The supervisor node is lambda x: x: it makes no call and writes the state
\* back unchanged; should_rewrite is evaluated on that state when it returns.
supervisor ==
    /\ pc["supervisor"] = "ready"
    /\ ~error
    /\ pc' = [pc EXCEPT !["supervisor"] = "done"]
    /\ route' = should_rewrite(AppState)
    /\ gates' = gates + 1
    /\ UNCHANGED <<appVars, oracle, error, outcome, generated_state, prompt, calls,
                   returns, errors, critiqued, firstWriter>>

\* ------------------------------------------------------------------------
\* The engine: graph topology and superstep barrier
\* ------------------------------------------------------------------------

\* Variant: the critiques lead back to the editor.
Edges_reedit ==
    {<<"editor", "tweet_writer">>,
     <<"editor", "linkedin_writer">>,
     <<"tweet_writer", "supervisor">>,
     <<"linkedin_writer", "supervisor">>,
     <<"tweet_critique", "editor">>,
     <<"linkedin_critique", "editor">>}

\* Variant: the tweet critique leads straight back to the supervisor.
Edges_skipwriter ==
    {<<"editor", "tweet_writer">>,
     <<"editor", "linkedin_writer">>,
     <<"tweet_writer", "supervisor">>,
     <<"linkedin_writer", "supervisor">>,
     <<"tweet_critique", "supervisor">>,
     <<"linkedin_critique", "linkedin_writer">>}

\* Variant: the editor leads to the tweet critique instead of the tweet writer.
Edges_critique_first ==
    {<<"editor", "tweet_critique">>,
     <<"editor", "linkedin_writer">>,
     <<"tweet_writer", "supervisor">>,
     <<"linkedin_writer", "supervisor">>,
     <<"tweet_critique", "tweet_writer">>,
     <<"linkedin_critique", "linkedin_writer">>}

\* graph.add_edge(...)
Edges ==
    {<<"editor", "tweet_writer">>,
     <<"editor", "linkedin_writer">>,
     <<"tweet_writer", "supervisor">>,
     <<"linkedin_writer", "supervisor">>,
     <<"tweet_critique", "tweet_writer">>,
     <<"linkedin_critique", "linkedin_writer">>}

\* The nodes triggered by the superstep that just finished.
Triggered ==
    {m \in Nodes : \E n \in Nodes : pc[n] = "done" /\ <<n, m>> \in Edges}
        \cup (route \ {END})

\* Variant: no barrier, a node is triggered as soon as a predecessor returns,
\* while other nodes of the superstep are still running.
after_tick_nobarrier ==
    /\ outcome = "running"
    /\ ~error
    /\ \E n \in Nodes : pc[n] = "done"
    /\ pc' = [n \in Nodes |-> IF n \in Triggered THEN "ready"
                              ELSE IF pc[n] \in {"ready", "calling"} THEN pc[n]
                              ELSE "idle"]
    /\ route' = {}
    /\ IF Triggered = {} /\ \A n \in Nodes : pc[n] \notin {"ready", "calling"}
       THEN outcome' = "success" /\ generated_state' = <<AppState>>
       ELSE UNCHANGED <<outcome, generated_state>>
    /\ UNCHANGED <<appVars, oracle, error, prompt, histVars>>

\* All nodes of the superstep have returned: the next superstep is prepared,
\* or, when nothing is triggered, app.invoke returns the state and main
\* stores it in the session state.
after_tick ==
    /\ outcome = "running"
    /\ ~error
    /\ \A n \in Nodes : pc[n] \notin {"ready", "calling"}
    /\ pc' = [n \in Nodes |-> IF n \in Triggered THEN "ready" ELSE "idle"]
    /\ route' = {}
    /\ IF Triggered = {}
       THEN outcome' = "success" /\ generated_state' = <<AppState>>
       ELSE UNCHANGED <<outcome, generated_state>>
    /\ UNCHANGED <<appVars, oracle, error, prompt, histVars>>

\* Variant: the except clause keeps whatever state the run had reached.
main_except_partial ==
    /\ outcome = "running"
    /\ error
    /\ \A n \in Nodes : pc[n] # "calling"
    /\ outcome' = "failure"
    /\ generated_state' = <<AppState>>
    /\ UNCHANGED <<appVars, oracle, pc, route, error, prompt, histVars>>

\* A node raised: once the calls still in flight have come back, the
\* exception leaves app.invoke and main's except clause reports it; the
\* session state is not assigned.
main_except ==
    /\ outcome = "running"
    /\ error
    /\ \A n \in Nodes : pc[n] # "calling"
    /\ outcome' = "failure"
    /\ UNCHANGED <<appVars, oracle, pc, route, error, generated_state, prompt, histVars>>

Next ==
    \/ editor_call
    \/ editor_node
    \/ tweet_writer_call
    \/ tweet_writer_node
    \/ linkedin_writer_call
    \/ linkedin_writer_node
    \/ critique_tweet_call
    \/ critique_tweet_node
    \/ critique_linkedin_call
    \/ critique_linkedin_node
    \/ supervisor
    \/ after_tick
    \/ main_except

Spec == Init /\ [][Next]_vars

\* Every call returns and every enabled step is eventually taken.
FairSpec == Spec /\ WF_vars(Next)

TypeOK ==
    /\ edit_text \in Texts \cup {Unset}
    /\ tweet.feedback \in Texts \cup {None}
    /\ linkedin_post.feedback \in Texts \cup {None}
    /\ n_drafts \in 1..MaxDrafts
    /\ outcome \in {"running", "success", "failure"}
    /\ Len(generated_state) <= 1

\* ------------------------------------------------------------------------
\* Properties
\* ------------------------------------------------------------------------

NoCritiquePending ==
    \A c \in Critiques : pc[c] \notin {"ready", "calling"}

\* C1: a run in which every call succeeds ends with exactly n_drafts drafts
\* for each platform, and once both counts have reached n_drafts no further
\* round is started (the gate routes to END, no critique or writer is
\* triggered again).
C1_ExactDraftCounts ==
    /\ outcome = "success" =>
         /\ Len(tweet.drafts) = n_drafts
         /\ Len(linkedin_post.drafts) = n_drafts
         /\ generated_state = <<AppState>>
    /\ (Len(tweet.drafts) >= n_drafts /\ Len(linkedin_post.drafts) >= n_drafts) =>
         /\ NoCritiquePending
         /\ \A w \in Writers : pc[w] \notin {"ready", "calling"}
         /\ route \subseteq {END}

C1_Witness ==
    outcome = "success" /\ n_drafts = 3 /\ Len(tweet.drafts) = 3

\* C2: in a completed run each critique has been invoked exactly
\* n_drafts - 1 times; a critique is only ever triggered between two rounds,
\* that is while both platforms are still short of n_drafts and hold as many
\* drafts as gate evaluations have taken place.
C2_CritiqueCount ==
    /\ outcome = "success" =>
         \A c \in Critiques : calls[c] = n_drafts - 1 /\ returns[c] = n_drafts - 1
    /\ \A c \in Critiques :
         pc[c] \in {"ready", "calling"} =>
            /\ Len(tweet.drafts) < n_drafts
            /\ Len(linkedin_post.drafts) < n_drafts
            /\ Len(tweet.drafts) = gates
            /\ Len(linkedin_post.drafts) = gates

C2_Witness ==
    /\ outcome = "success"
    /\ n_drafts = 3
    /\ calls["tweet_critique"] = 2
    /\ calls["linkedin_critique"] = 2

\* C3: a failed call never lets a state reach the caller: after an exception
\* the run cannot succeed and nothing is stored; whatever is stored was
\* returned by a successful run and is fully populated.
C3_NoPartialState ==
    /\ (errors # {}) = error
    /\ error => outcome # "success" /\ generated_state = <<>>
    /\ outcome = "failure" => error /\ generated_state = <<>>
    /\ generated_state # <<>> =>
         /\ outcome = "success"
         /\ generated_state[1].edit_text # Unset
         /\ Len(generated_state[1].tweet.drafts) = n_drafts
         /\ Len(generated_state[1].linkedin_post.drafts) = n_drafts

C3_Witness ==
    /\ outcome = "failure"
    /\ "linkedin_critique" \in errors
    /\ calls["linkedin_critique"] = 2
    /\ returns["tweet_critique"] = 2

\* C4: under fair scheduling every run reaches success or failure, and every
\* gate evaluation finds both draft counts one higher than the previous one
\* did (equal to the number of evaluations so far).
C4_Termination ==
    /\ <>(outcome # "running")
    /\ [][gates' # gates =>
            /\ gates' = gates + 1
            /\ Len(tweet.drafts) = gates'
            /\ Len(linkedin_post.drafts) = gates']_vars

C4_Witness ==
    outcome = "success" /\ n_drafts = 3 /\ gates = 3

\* C5: if the first writer call of a run fails, both platforms' drafts are
\* empty from the failure on.
C5_FirstWriterFailure ==
    (firstWriter # "none" /\ firstWriter \in errors /\ calls[firstWriter] = 1) =>
        Len(tweet.drafts) = 0 /\ Len(linkedin_post.drafts) = 0

\* C6: the editor is called exactly once, before any writer or critique
\* call; a Continue decision of the gate never triggers the editor; once
\* set, edit_text is not changed.
C6_EditorOnce ==
    /\ [](/\ calls["editor"] <= 1
          /\ outcome = "success" => calls["editor"] = 1
          /\ \A n \in Writers \cup Critiques :
               (pc[n] \in {"ready", "calling"} \/ calls[n] > 0) =>
                  /\ edit_text # Unset
                  /\ returns["editor"] = 1
          /\ \A n \in Writers \cup Critiques :
               pc[n] = "calling" => prompt[n][1].text = edit_text)
    /\ [][/\ edit_text # Unset => edit_text' = edit_text
          /\ gates > 0 => pc'["editor"] = "idle"]_vars

C6_Witness ==
    outcome = "success" /\ n_drafts = 2 /\ calls["editor"] = 1

PostOf(c) == IF c = "tweet_critique" THEN tweet ELSE linkedin_post

KeyOf(c) == IF c = "tweet_critique" THEN "tweet" ELSE "linkedin_post"

WriterOf(c) == IF c = "tweet_critique" THEN "tweet_writer" ELSE "linkedin_writer"

\* C7: feedback is None exactly while no critique of the platform has
\* completed; when the N-th critique completes, the platform has exactly N
\* drafts and the feedback was written for drafts[N]; a critique always
\* comes before the next write.
C7_FeedbackIffCritiqued ==
    \A c \in Critiques :
        /\ (PostOf(c).feedback = None) = (returns[c] = 0)
        /\ pc[c] = "done" =>
             /\ Len(PostOf(c).drafts) = returns[c]
             /\ critiqued[KeyOf(c)] = returns[c]
             /\ prompt[c][1].draft = PostOf(c).drafts[returns[c]]
        /\ Len(PostOf(c).drafts) \in {returns[c], returns[c] + 1}

C7_Witness ==
    pc["linkedin_critique"] = "done" /\ returns["linkedin_critique"] = 2

\* C8: every step keeps each platform's drafts as a prefix of the new
\* drafts; drafts change only when the platform's writer returns, and then
\* by exactly one entry appended at the end.
C8_AppendOnly ==
    [][/\ IsPrefix(tweet.drafts, tweet'.drafts)
       /\ IsPrefix(linkedin_post.drafts, linkedin_post'.drafts)
       /\ tweet'.drafts # tweet.drafts =>
            pc["tweet_writer"] = "calling" /\ pc'["tweet_writer"] = "done"
       /\ linkedin_post'.drafts # linkedin_post.drafts =>
            pc["linkedin_writer"] = "calling" /\ pc'["linkedin_writer"] = "done"
       /\ returns'["tweet_writer"] # returns["tweet_writer"] =>
            Len(tweet'.drafts) = Len(tweet.drafts) + 1
       /\ returns'["linkedin_writer"] # returns["linkedin_writer"] =>
            Len(linkedin_post'.drafts) = Len(linkedin_post.drafts) + 1]_vars

C8_Witness ==
    Len(tweet.drafts) = 3 /\ Len(linkedin_post.drafts) = 2

\* C9 as stated: whenever feedback is present it was written for the draft
\* that is currently last.
C9_FeedbackDescribesLast ==
    \A c \in Critiques :
        PostOf(c).feedback # None => critiqued[KeyOf(c)] = Len(PostOf(c).drafts)

\* C9 amended: whenever feedback is present it was written for the draft
\* that was last when the latest critique ran: the last draft until the
\* platform's writer appends again, the one before the last from then on,
\* in particular in the state returned at termination.
C9_FeedbackDescribesCritiqued ==
    \A c \in Critiques :
        PostOf(c).feedback # None =>
            /\ critiqued[KeyOf(c)] = returns[c]
            /\ pc[c] = "done" =>
                 prompt[c][1].draft = PostOf(c).drafts[critiqued[KeyOf(c)]]
            /\ IF returns[WriterOf(c)] > returns[c]
               THEN critiqued[KeyOf(c)] = Len(PostOf(c).drafts) - 1
               ELSE critiqued[KeyOf(c)] = Len(PostOf(c).drafts)
            /\ outcome = "success" =>
                 critiqued[KeyOf(c)] = Len(PostOf(c).drafts) - 1

C9_Witness ==
    /\ outcome = "success"
    /\ n_drafts = 3
    /\ tweet.feedback # None
    /\ critiqued["tweet"] = 2

\* C10: if user_text is non-empty and the editor's call succeeded, edit_text
\* is not empty.
C10_EditTextNonEmpty ==
    (user_text # "" /\ returns["editor"] > 0) => edit_text # ""

\* ------------------------------------------------------------------------
\* The gate as a function of arbitrary draft counts
\* ------------------------------------------------------------------------

Drafts(k) == [i \in 1..k |-> "a"]

\* The supervisor is about to run on a state holding any pair of draft
\* counts, equal or not.
GateInit ==
    /\ user_text \in {"X"}
    /\ target_audience \in {"engineers"}
    /\ edit_text = "a"
    /\ \E a \in 0..(MaxDrafts + 1) : tweet = Post(Drafts(a), None)
    /\ \E b \in 0..(MaxDrafts + 1) : linkedin_post = Post(Drafts(b), None)
    /\ n_drafts \in 1..MaxDrafts
    /\ pc = [n \in Nodes |-> IF n = "supervisor" THEN "ready" ELSE "idle"]
    /\ route = {}
    /\ error = FALSE
    /\ outcome = "running"
    /\ generated_state = <<>>
    /\ prompt = [n \in Nodes |-> <<>>]
    /\ calls = [n \in Nodes |-> 0]
    /\ returns = [n \in Nodes |-> 0]
    /\ errors = {}
    /\ critiqued = [p \in {"tweet", "linkedin_post"} |-> 0]
    /\ firstWriter = "none"
    /\ gates = 0
    /\ oracle = [n \in Nodes |-> <<>>]

GateNext ==
    \/ supervisor
    \/ after_tick

GateSpec == GateInit /\ [][GateNext]_vars

BothReached ==
    Len(tweet.drafts) >= n_drafts /\ Len(linkedin_post.drafts) >= n_drafts

\* C11: for every pair of draft counts and every n_drafts the gate returns
\* END exactly when both counts have reached n_drafts, and otherwise routes
\* to both critiques together, never to one of them alone.
C11_JointGate ==
    /\ pc["supervisor"] = "done" =>
         route = IF BothReached THEN {END} ELSE {"linkedin_critique", "tweet_critique"}
    /\ (pc["tweet_critique"] = "ready") = (pc["linkedin_critique"] = "ready")
    /\ (gates = 1 /\ pc["supervisor"] = "idle") =>
         /\ (outcome = "success") = BothReached
         /\ ~BothReached =>
              pc["tweet_critique"] = "ready" /\ pc["linkedin_critique"] = "ready"

C11_Witness ==
    /\ gates = 1
    /\ pc["supervisor"] = "idle"
    /\ Len(tweet.drafts) >= n_drafts
    /\ Len(linkedin_post.drafts) < n_drafts
    /\ pc["tweet_critique"] = "ready"
    /\ pc["linkedin_critique"] = "ready"

\* ------------------------------------------------------------------------
\* Ordering of the stages
\* ------------------------------------------------------------------------

\* C12: the gate evaluates for round r only when both writers' round-r calls
\* have returned and their drafts are recorded, and once per round: at every
\* evaluation both platforms hold exactly r drafts, r being the number of
\* the evaluation.
C12_FanInBarrier ==
    /\ [](/\ gates <= Len(tweet.drafts)
          /\ gates <= Len(linkedin_post.drafts)
          /\ Len(tweet.drafts) <= gates + 1
          /\ Len(linkedin_post.drafts) <= gates + 1
          /\ pc["supervisor"] = "ready" =>
               /\ \A w \in Writers : pc[w] = "idle" /\ returns[w] = gates + 1
               /\ Len(tweet.drafts) = gates + 1
               /\ Len(linkedin_post.drafts) = gates + 1)
    /\ [][gates' # gates =>
            /\ gates' = gates + 1
            /\ \A w \in Writers : pc[w] \notin {"ready", "calling"}
            /\ \A w \in Writers : calls[w] = gates' /\ returns[w] = gates'
            /\ Len(tweet.drafts) = gates'
            /\ Len(linkedin_post.drafts) = gates']_vars

C12_Witness ==
    /\ pc["supervisor"] = "done"
    /\ gates = 2
    /\ Len(tweet.drafts) = 2
    /\ Len(linkedin_post.drafts) = 2

\* C13: per platform the calls alternate writer, critique, writer, ...,
\* starting with a writer: a critique is called only after a gate evaluation
\* that followed the platform's latest write and decided to continue, a
\* writer (after the first) only after the platform's critique returned, and
\* between a critique and the next gate evaluation the writer is called
\* exactly once.
C13_Alternation ==
    /\ [](\A c \in Critiques :
            calls[c] <= calls[WriterOf(c)] /\ calls[WriterOf(c)] <= calls[c] + 1)
    /\ [][\A c \in Critiques :
            /\ calls'[c] # calls[c] =>
                 /\ calls'[c] = calls[c] + 1
                 /\ calls[WriterOf(c)] = calls[c] + 1
                 /\ returns[WriterOf(c)] = calls[WriterOf(c)]
                 /\ gates = calls[WriterOf(c)]
                 /\ ~BothReached
            /\ calls'[WriterOf(c)] # calls[WriterOf(c)] =>
                 /\ calls'[WriterOf(c)] = calls[WriterOf(c)] + 1
                 /\ calls[WriterOf(c)] = calls[c]
                 /\ returns[c] = calls[c]
                 /\ gates = calls[c]
            /\ gates' # gates => calls[WriterOf(c)] = calls[c] + 1]_vars

C13_Witness ==
    /\ gates = 3
    /\ calls["tweet_critique"] = 2
    /\ calls["tweet_writer"] = 3
    /\ calls["linkedin_critique"] = 2
    /\ calls["linkedin_writer"] = 3

\* C14: a writer call carries the latest draft and the feedback exactly when
\* the feedback is present: the round-1 call carries neither, every later
\* call carries the feedback of the preceding critique and the draft that
\* critique examined, whatever text the critique returned.
C14_WriterCarriesFeedback ==
    \A c \in Critiques :
        pc[WriterOf(c)] = "calling" =>
            /\ (prompt[WriterOf(c)][1].feedback_prompt # <<>>)
                  = (PostOf(c).feedback # None)
            /\ calls[WriterOf(c)] = 1 =>
                 prompt[WriterOf(c)][1].feedback_prompt = <<>>
            /\ calls[WriterOf(c)] > 1 =>
                 prompt[WriterOf(c)][1].feedback_prompt
                    = <<PostOf(c).drafts[critiqued[KeyOf(c)]], PostOf(c).feedback>>

\* ------------------------------------------------------------------------
\* Frame of the stages
\* ------------------------------------------------------------------------

\* Node n finishes (returns or raises) in this step.
Finishes(n) == pc[n] = "calling" /\ pc'[n] # "calling"

\* C15: Twitter stages leave linkedin_post unchanged and LinkedIn stages
\* leave tweet unchanged; a critique changes only its platform's feedback, a
\* writer only its platform's drafts; no step changes user_text,
\* target_audience or n_drafts, and the gate changes nothing of the state.
C15_Frame ==
    [][/\ user_text' = user_text
       /\ target_audience' = target_audience
       /\ n_drafts' = n_drafts
       /\ (pc'["tweet_writer"] # pc["tweet_writer"] /\ pc'["tweet_writer"] = "calling")
            => linkedin_post' = linkedin_post /\ tweet' = tweet
       /\ (pc'["tweet_critique"] # pc["tweet_critique"] /\ pc'["tweet_critique"] = "calling")
            => linkedin_post' = linkedin_post /\ tweet' = tweet
       /\ (Finishes("tweet_writer") \/ Finishes("tweet_critique"))
            => linkedin_post' = linkedin_post
       /\ (Finishes("linkedin_writer") \/ Finishes("linkedin_critique"))
            => tweet' = tweet
       /\ tweet' # tweet =>
            Finishes("tweet_writer") \/ Finishes("tweet_critique")
       /\ linkedin_post' # linkedin_post =>
            Finishes("linkedin_writer") \/ Finishes("linkedin_critique")
       /\ Finishes("tweet_writer") => tweet'.feedback = tweet.feedback
       /\ Finishes("linkedin_writer") =>
            linkedin_post'.feedback = linkedin_post.feedback
       /\ Finishes("tweet_critique") => tweet'.drafts = tweet.drafts
       /\ Finishes("linkedin_critique") =>
            linkedin_post'.drafts = linkedin_post.drafts
       /\ gates' # gates =>
            /\ tweet' = tweet
            /\ linkedin_post' = linkedin_post
            /\ edit_text' = edit_text]_vars

C15_Witness ==
    /\ Len(tweet.drafts) = 2
    /\ tweet.feedback # None
    /\ Len(linkedin_post.drafts) = 2
    /\ linkedin_post.feedback # None
    /\ gates = 2

\* ------------------------------------------------------------------------
\* Draft counts and draft access
\* ------------------------------------------------------------------------

\* C17: in every reachable state, mid-round and in failing runs included,
\* each platform holds at most n_drafts drafts and the two counts differ by
\* at most one.
C17_Lockstep ==
    /\ Len(tweet.drafts) <= n_drafts
    /\ Len(linkedin_post.drafts) <= n_drafts
    /\ Len(tweet.drafts) - Len(linkedin_post.drafts) \in {-1, 0, 1}

C17_Witness ==
    /\ outcome = "failure"
    /\ n_drafts = 3
    /\ Len(tweet.drafts) = 3
    /\ Len(linkedin_post.drafts) = 2

\* C18: whenever a critique is about to read drafts[-1], and whenever a
\* writer is about to read it because the feedback is truthy, the platform's
\* drafts are not empty; no node ever raises on indexing (every raise comes
\* from a service call that was made).
C18_LatestDraftDefined ==
    /\ \A c \in Critiques :
         /\ pc[c] \in {"ready", "calling"} => Len(PostOf(c).drafts) >= 1
         /\ (pc[WriterOf(c)] \in {"ready", "calling"} /\ Truthy(PostOf(c).feedback))
              => Len(PostOf(c).drafts) >= 1
    /\ \A n \in errors : calls[n] = returns[n] + 1

C18_Witness ==
    /\ pc["linkedin_writer"] = "calling"
    /\ prompt["linkedin_writer"][1].feedback_prompt # <<>>
    /\ returns["linkedin_critique"] = 1
    /\ Len(linkedin_post.drafts) = 1

\* ------------------------------------------------------------------------
\* Concurrent against sequential execution, for a fixed service
\* ------------------------------------------------------------------------

\* A run against a service whose responses are fixed beforehand, all of them
\* texts: every call succeeds.
OracleInit ==
    /\ user_text \in {"X"}
    /\ target_audience \in {"engineers"}
    /\ edit_text = Unset
    /\ tweet = Post(<<>>, None)
    /\ linkedin_post = Post(<<>>, None)
    /\ n_drafts \in 1..MaxDrafts
    /\ pc = [n \in Nodes |-> IF n = "editor" THEN "ready" ELSE "idle"]
    /\ route = {}
    /\ error = FALSE
    /\ outcome = "running"
    /\ generated_state = <<>>
    /\ prompt = [n \in Nodes |-> <<>>]
    /\ calls = [n \in Nodes |-> 0]
    /\ returns = [n \in Nodes |-> 0]
    /\ errors = {}
    /\ critiqued = [p \in {"tweet", "linkedin_post"} |-> 0]
    /\ firstWriter = "none"
    /\ gates = 0
    /\ \E o \in [Nodes \ {"supervisor"} -> Texts \X Texts] :
         oracle = [n \in Nodes |-> IF n = "supervisor" THEN <<>> ELSE o[n]]

OracleNext ==
    \/ editor_call
    \/ editor_node
    \/ tweet_writer_call
    \/ tweet_writer_node
    \/ linkedin_writer_call
    \/ linkedin_writer_node
    \/ critique_tweet_call
    \/ critique_tweet_node
    \/ critique_linkedin_call
    \/ critique_linkedin_node
    \/ supervisor
    \/ after_tick

OracleSpec == OracleInit /\ [][OracleNext]_vars

\* The strictly sequential execution of the graph against the same service:
\* in each round the Twitter writer, then the LinkedIn writer, then the
\* gate, then the Twitter critique, then the LinkedIn critique. st carries
\* the state and the gate decisions taken so far; like the calls of a node,
\* the rounds are capped at MaxCalls.
RECURSIVE SeqRounds(_)
SeqRounds(st) ==
    LET r  == Len(st.tweet.drafts) + 1
        s1 == [st EXCEPT !.tweet.drafts = Append(@, Resp("tweet_writer", r))]
        s2 == [s1 EXCEPT !.linkedin_post.drafts = Append(@, Resp("linkedin_writer", r))]
        d  == should_rewrite(s2)
        s3 == [s2 EXCEPT !.decisions = Append(@, d)]
        s4 == [s3 EXCEPT !.tweet.feedback = Resp("tweet_critique", r)]
        s5 == [s4 EXCEPT !.linkedin_post.feedback = Resp("linkedin_critique", r)]
    IN  IF d = {END} \/ r > MaxCalls THEN s3 ELSE SeqRounds(s5)

Sequential ==
    SeqRounds([edit_text |-> Resp("editor", 1),
               tweet |-> Post(<<>>, None),
               linkedin_post |-> Post(<<>>, None),
               n_drafts |-> n_drafts,
               decisions |-> <<>>])

\* C16: with the same inputs and the same service responses, all calls
\* succeeding, every interleaving of the two pipelines takes the gate
\* decisions of the sequential execution, in the same order, builds its
\* drafts as prefixes of the sequential ones, and ends with the same
\* edit_text, drafts and feedback for both platforms.
C16_SameAsSequential ==
    /\ IsPrefix(tweet.drafts, Sequential.tweet.drafts)
    /\ IsPrefix(linkedin_post.drafts, Sequential.linkedin_post.drafts)
    /\ gates <= Len(Sequential.decisions)
    /\ pc["supervisor"] = "done" => route = Sequential.decisions[gates]
    /\ outcome # "failure"
    /\ outcome = "success" =>
         /\ gates = Len(Sequential.decisions)
         /\ edit_text = Sequential.edit_text
         /\ tweet = Sequential.tweet
         /\ linkedin_post = Sequential.linkedin_post
         /\ generated_state[1].tweet = Sequential.tweet
         /\ generated_state[1].linkedin_post = Sequential.linkedin_post

C16_Witness ==
    /\ outcome = "success"
    /\ n_drafts = 3
    /\ firstWriter = "linkedin_writer"
    /\ tweet.drafts = <<"a", "", "a">>
    /\ linkedin_post.drafts = <<"", "a", "">>
    /\ tweet.feedback = ""
    /\ linkedin_post.feedback = "a"

====
